---------------------------- MODULE Spec2Model ----------------------------
(***************************************************************************)
(* A model of media_organizer.py: the classification of a file from its   *)
(* sniffed MIME type and its extension, the extraction of a capture date, *)
(* the computation of a destination, get_safe_path, and run_task's loop   *)
(* over the source tree in its three modes, on a filesystem of regular    *)
(* files and directories.                                                  *)
(*                                                                         *)
(* A path is a sequence of component names (<<"s", "sub", "a.jpg">> is    *)
(* /s/sub/a.jpg); a name is a string.                                      *)
(***************************************************************************)
EXTENDS Integers, Sequences, FiniteSets, TLC

VARIABLES
    files,      \* the regular files: a function from path to the file's identity
    dirs,       \* the directories: a set of paths
    today,      \* datetime.datetime.now(), as [year, month, day]
    mode,       \* run_task's mode: "report", "dry-run" or "organize"
    source,     \* source_path
    target,     \* target_path, or NoTarget
    pc,         \* "scan": inside the for loop; "done": returned; "raised": left by an exception
    phase,      \* "first" or "second" call of run_task
    todo,       \* entries under source at the call that rglob has not yielded yet
    stats,      \* the stats dictionary of this call
    counted,    \* how many times each source path was added to stats["totals"]
    fs0,        \* the filesystem at the start of this call
    prev,       \* the outcome of the first call, once the second has started
    arg,        \* the argument of a call of one function on its own
    counter,    \* get_safe_path's counter in that call
    ret         \* its result

vars == <<files, dirs, today, mode, source, target, pc, phase, todo,
          stats, counted, fs0, prev, arg, counter, ret>>

\* Python's None, where a string, a datetime, a creation_date or a path is expected
None == "None"
NoDate == [none |-> TRUE]
NoCreation == [kind |-> "none"]
NoTarget == <<>>

-----------------------------------------------------------------------------
(* Strings *)

CharAt(s, i) == SubSeq(s, i, i)

Upper == <<"A","B","C","D","E","F","G","H","I","J","K","L","M",
           "N","O","P","Q","R","S","T","U","V","W","X","Y","Z">>
Lowers == <<"a","b","c","d","e","f","g","h","i","j","k","l","m",
            "n","o","p","q","r","s","t","u","v","w","x","y","z">>

UpperSet == {Upper[i] : i \in 1..Len(Upper)}
LowerMap == [c \in UpperSet |-> Lowers[CHOOSE i \in 1..Len(Upper) : Upper[i] = c]]

LowerChar(c) == IF c \in UpperSet THEN LowerMap[c] ELSE c

RECURSIVE lower(_)
lower(s) == IF Len(s) = 0 THEN "" ELSE LowerChar(CharAt(s, 1)) \o lower(Tail(s))

startswith(s, prefix) ==
    Len(s) >= Len(prefix) /\ SubSeq(s, 1, Len(prefix)) = prefix

\* str.rfind('.') + 1: the position of the last dot, 0 when there is none
RFindDot(s) ==
    LET dots == {i \in 1..Len(s) : CharAt(s, i) = "."}
    IN IF dots = {} THEN 0 ELSE CHOOSE i \in dots : \A j \in dots : j <= i

\* PurePath.suffix: from the last dot on, unless the name starts or ends with it
suffix(name) ==
    LET i == RFindDot(name)
    IN IF 1 < i /\ i < Len(name) THEN SubSeq(name, i, Len(name)) ELSE ""

\* PurePath.stem
stem(name) ==
    LET i == RFindDot(name)
    IN IF 1 < i /\ i < Len(name) THEN SubSeq(name, 1, i - 1) ELSE name

Digits == <<"0","1","2","3","4","5","6","7","8","9">>

DigitSet == {Digits[d] : d \in 1..Len(Digits)}
DigitMap == [c \in DigitSet |-> (CHOOSE d \in 1..Len(Digits) : Digits[d] = c) - 1]

IsDigit(c) == c \in DigitSet
DigitVal(c) == DigitMap[c]

\* str(n) for n >= 0
RECURSIVE IntStr(_)
IntStr(n) == IF n < 10 THEN Digits[n + 1] ELSE IntStr(n \div 10) \o Digits[(n % 10) + 1]

\* f"{n:02d}" and strftime's %m, %d
Pad2(n) == IF n < 10 THEN "0" \o IntStr(n) ELSE IntStr(n)

\* strftime's %Y
Pad4(n) ==
    IF n < 10 THEN "000" \o IntStr(n)
    ELSE IF n < 100 THEN "00" \o IntStr(n)
    ELSE IF n < 1000 THEN "0" \o IntStr(n)
    ELSE IntStr(n)

AllDigits(s) == Len(s) > 0 /\ \A i \in 1..Len(s) : IsDigit(CharAt(s, i))

RECURSIVE ParseNat(_)
ParseNat(s) ==
    IF Len(s) = 0 THEN 0
    ELSE 10 * ParseNat(SubSeq(s, 1, Len(s) - 1)) + DigitVal(CharAt(s, Len(s)))

-----------------------------------------------------------------------------
(* Paths *)

Parent(p) == SubSeq(p, 1, Len(p) - 1)
Name(p) == p[Len(p)]
\* Path.parents: the proper ancestors
Parents(p) == {SubSeq(p, 1, k) : k \in 0..(Len(p) - 1)}
IsUnder(p, d) == Len(p) > Len(d) /\ SubSeq(p, 1, Len(d)) = d
relative_to(p, d) == SubSeq(p, Len(d) + 1, Len(p))


-----------------------------------------------------------------------------
(* The functions of media_organizer.py *)

Categories == {"Photos", "Videos", "Non-Media"}

\* the outcome of the `file --mime-type -b` subprocess when it fails
SniffFailed == "<failed>"

\* get_mime_type: the subprocess's output, or the sentinel when it raised
get_mime_type(sniff) == IF sniff = SniffFailed THEN "unknown/unknown" ELSE sniff

\* ext = file_path.suffix.lower() or ".no_ext"
Ext(name) == LET e == lower(suffix(name)) IN IF e = "" THEN ".no_ext" ELSE e

PhotoExts == {".raw", ".arw", ".cr2", ".nef", ".dng", ".heic"}
VideoExts == {".mkv", ".mov", ".mp4", ".avi", ".3gp"}

is_photo(mime, ext) == startswith(mime, "image/") \/ ext \in PhotoExts

is_video(mime, ext) == startswith(mime, "video/") \/ ext \in VideoExts

\* Category with the two tests in the other order
CategoryVideoFirst(mime, ext) ==
    IF is_video(mime, ext) THEN "Videos"
    ELSE IF is_photo(mime, ext) THEN "Photos"
    ELSE "Non-Media"

Category(mime, ext) ==
    IF is_photo(mime, ext) THEN "Photos"
    ELSE IF is_video(mime, ext) THEN "Videos"
    ELSE "Non-Media"

\* datetime.strptime(value[:19], '%Y:%m:%d %H:%M:%S'), None when it raises
strptime(value) ==
    LET v == SubSeq(value, 1, IF Len(value) < 19 THEN Len(value) ELSE 19)
        y == SubSeq(v, 1, 4)
        mo == SubSeq(v, 6, 7)
        d == SubSeq(v, 9, 10)
        h == SubSeq(v, 12, 13)
        mi == SubSeq(v, 15, 16)
        se == SubSeq(v, 18, 19)
    IN IF /\ Len(v) = 19
          /\ CharAt(v, 5) = ":" /\ CharAt(v, 8) = ":" /\ CharAt(v, 11) = " "
          /\ CharAt(v, 14) = ":" /\ CharAt(v, 17) = ":"
          /\ \A f \in {y, mo, d, h, mi, se} : AllDigits(f)
          /\ ParseNat(y) >= 1
          /\ ParseNat(mo) \in 1..12 /\ ParseNat(d) \in 1..31
          /\ ParseNat(h) <= 23 /\ ParseNat(mi) <= 59 /\ ParseNat(se) <= 61
       THEN [year |-> ParseNat(y), month |-> ParseNat(mo), day |-> ParseNat(d),
             hour |-> ParseNat(h)]
       ELSE NoDate

\* get_photo_date: exif is the DateTimeOriginal tag's value, None when the file
\* does not open as an image or carries no such tag
get_photo_date(exif) == IF exif = None THEN NoDate ELSE strptime(exif)

\* get_video_date: creation is hachoir's creation_date, a datetime or a date,
\* None when the parser or the field is missing
get_video_date(creation) ==
    IF creation = NoCreation THEN NoDate
    ELSE IF creation.kind = "date"
    THEN [year |-> creation.year, month |-> creation.month, day |-> creation.day,
          hour |-> 0]
    ELSE [year |-> creation.year, month |-> creation.month, day |-> creation.day,
          hour |-> creation.hour]

\* lines 132-136: the date of a file with attributes f, mime and ext as classified
DateOf(f, mime, ext) ==
    IF is_photo(mime, ext) THEN get_photo_date(f.exif)
    ELSE IF is_video(mime, ext) THEN get_video_date(f.creation)
    ELSE NoDate

\* Dest with the month as str(date.month)
DestUnpaddedMonth(target_path, source_path, file_path, category, date) ==
    IF category = "Non-Media"
    THEN target_path \o <<"NonMedia">> \o relative_to(file_path, source_path)
    ELSE IF date # NoDate
    THEN target_path \o <<category, IntStr(date.year), IntStr(date.month)>>
         \o <<Name(file_path)>>
    ELSE target_path \o <<"UnknownDate", category>> \o <<Name(file_path)>>

\* lines 138-147: the candidate destination
Dest(target_path, source_path, file_path, category, date) ==
    IF category = "Non-Media"
    THEN target_path \o <<"NonMedia">> \o relative_to(file_path, source_path)
    ELSE IF date # NoDate
    THEN target_path \o <<category, IntStr(date.year), Pad2(date.month)>>
         \o <<Name(file_path)>>
    ELSE target_path \o <<"UnknownDate", category>> \o <<Name(file_path)>>

\* Path.exists, on the set of regular files' paths and the set of directories
Exists(fpaths, dset, p) == p \in fpaths \/ p \in dset

\* NewPath without the suffix
NewPathNoSuffix(target_file_path, date_str, n) ==
    LET new_name == stem(Name(target_file_path)) \o "_" \o date_str \o "_" \o IntStr(n)
    IN Parent(target_file_path) \o <<new_name>>

\* lines 34-36 and 41-42: new_path for the counter n
NewPath(target_file_path, date_str, n) ==
    LET new_name == stem(Name(target_file_path)) \o "_" \o date_str \o "_"
                    \o IntStr(n) \o suffix(Name(target_file_path))
    IN Parent(target_file_path) \o <<new_name>>

\* line 45
NextCounter(n) == n + 1

\* lines 39-45: the while loop, from the counter n on
RECURSIVE SafeFrom(_, _, _, _, _)
SafeFrom(fpaths, dset, target_file_path, date_str, n) ==
    IF ~Exists(fpaths, dset, NewPath(target_file_path, date_str, n))
    THEN NewPath(target_file_path, date_str, n)
    ELSE SafeFrom(fpaths, dset, target_file_path, date_str, NextCounter(n))

\* strftime('%Y%m%d')
DateStr(now) == Pad4(now.year) \o Pad2(now.month) \o Pad2(now.day)

\* get_safe_path without the existence test
GetSafePathUnchecked(fpaths, dset, target_file_path, now) == target_file_path

get_safe_path(fpaths, dset, target_file_path, now) ==
    IF ~Exists(fpaths, dset, target_file_path) THEN target_file_path
    ELSE SafeFrom(fpaths, dset, target_file_path, DateStr(now), 1)

\* Path.mkdir(parents=True, exist_ok=True) raises when a component of the path
\* is a regular file
MkdirRaises(fpaths, d) == \E q \in Parents(d) \cup {d} : q \in fpaths

\* the directories after a successful mkdir(parents=True, exist_ok=True)
Mkdir(dset, d) == dset \cup Parents(d) \cup {d}


-----------------------------------------------------------------------------
(* The filesystems run_task is called on *)

\* the number of regular files under the source directory, outside the target
MaxFiles == 2

\* The files a filesystem is drawn from: a path relative to the source ("src")
\* or to the target ("tgt") directory, what `file` prints for it, its
\* DateTimeOriginal tag, its creation_date, and its size in bytes.
Universe == <<
    [at |-> "src", rel |-> <<"a.jpg">>, sniff |-> "image/jpeg",
     exif |-> "2023:06:15 10:00:00", creation |-> NoCreation, size |-> 3],
    [at |-> "src", rel |-> <<"sub", "a.jpg">>, sniff |-> "image/jpeg",
     exif |-> "2023:06:01 08:30:00 UTC", creation |-> NoCreation, size |-> 5],
    [at |-> "src", rel |-> <<"b.HEIC">>, sniff |-> "video/mp4",
     exif |-> "2023:06:xx", creation |-> NoCreation, size |-> 2],
    [at |-> "src", rel |-> <<"c.mov">>, sniff |-> SniffFailed,
     exif |-> None, creation |-> [kind |-> "date", year |-> 2024, month |-> 11, day |-> 3],
     size |-> 7],
    [at |-> "src", rel |-> <<"sub", "n.txt">>, sniff |-> "text/plain",
     exif |-> None, creation |-> NoCreation, size |-> 1],
    [at |-> "src", rel |-> <<"organization_log.txt">>, sniff |-> "text/plain",
     exif |-> None, creation |-> NoCreation, size |-> 4],
    [at |-> "tgt", rel |-> <<"Photos", "2023", "06", "a.jpg">>, sniff |-> "image/jpeg",
     exif |-> "2023:06:15 10:00:00", creation |-> NoCreation, size |-> 3],
    [at |-> "tgt", rel |-> <<"NonMedia", "sub">>, sniff |-> "text/plain",
     exif |-> None, creation |-> NoCreation, size |-> 1]
>>

Ids == 1..Len(Universe)
SrcIds == {i \in Ids : Universe[i].at = "src"}
TgtIds == {i \in Ids : Universe[i].at = "tgt"}

Modes == {"report", "dry-run", "organize"}

Dates == {[year |-> 2024, month |-> 1, day |-> 1]}

\* where file i of the universe lies
Place(i, src, tgt) == (IF Universe[i].at = "src" THEN src ELSE tgt) \o Universe[i].rel

FileMap(I, src, tgt) ==
    [p \in {Place(i, src, tgt) : i \in I} |-> CHOOSE i \in I : Place(i, src, tgt) = p]

\* the directories of a filesystem with these regular files: the source, and
\* the target only when it holds a file
DirsOf(fpaths, src) == {<<>>, src} \cup UNION {Parents(p) : p \in fpaths}

\* source_path.rglob('*'): the entries under the source directory
Entries(fpaths, dset, src) == {p \in fpaths \cup dset : IsUnder(p, src)}

\* lines 82-93
EmptyStats ==
    [totals |-> [c \in Categories |-> [count |-> 0, size |-> 0]],
     byext |-> [c \in Categories |-> <<>>],
     moved |-> <<>>,
     errors |-> <<>>]

NoPrev == [mode |-> None]

\* run_task(source, target, mode) is entered: the target lies outside the
\* source (/t), inside it (/s/out), or is None, which __main__ passes in report
\* mode only
Init ==
    /\ \E S \in SUBSET SrcIds, T \in SUBSET TgtIds, m \in Modes,
          tgt \in {NoTarget, <<"t">>, <<"s", "out">>} :
        /\ Cardinality(S) <= MaxFiles
        /\ tgt = NoTarget => m = "report" /\ T = {}
        /\ source = <<"s">>
        /\ target = tgt
        /\ mode = m
        /\ files = FileMap(S \cup T, <<"s">>, tgt)
    /\ dirs = DirsOf(DOMAIN files, source)
    /\ today \in Dates
    /\ pc = "scan"
    /\ phase = "first"
    /\ todo = Entries(DOMAIN files, dirs, source)
    /\ stats = EmptyStats
    /\ counted = <<>>
    /\ fs0 = [files |-> files, dirs |-> dirs]
    /\ prev = NoPrev
    /\ arg = None
    /\ counter = 0
    /\ ret = None

-----------------------------------------------------------------------------
(* run_task *)

\* Skipped without the test of the target subtree
SkippedNoTargetTest(fmap, tgt, file_path) ==
    \/ file_path \notin DOMAIN fmap
    \/ Name(file_path) = "organization_log.txt"

\* lines 98-105: the entries the loop passes over
Skipped(fmap, tgt, file_path) ==
    \/ file_path \notin DOMAIN fmap
    \/ (tgt # NoTarget /\ tgt \in Parents(file_path)) \/ file_path = tgt
    \/ Name(file_path) = "organization_log.txt"

\* AddStats with the category's size assigned instead of added to
AddStatsSizeAssigned(st, category, ext, file_size) ==
    [st EXCEPT
        !.totals[category].count = @ + 1,
        !.totals[category].size = file_size]

\* lines 123-126
AddStats(st, category, ext, file_size) ==
    LET old == IF ext \in DOMAIN st.byext[category]
               THEN st.byext[category][ext]
               ELSE [count |-> 0, size |-> 0]
        exts == DOMAIN st.byext[category] \cup {ext}
    IN [st EXCEPT
          !.totals[category].count = @ + 1,
          !.totals[category].size = @ + file_size,
          !.byext[category] =
              [e \in exts |-> IF e = ext
                              THEN [count |-> old.count + 1, size |-> old.size + file_size]
                              ELSE st.byext[category][e]]]

\* lines 107-120: what the loop reads of the regular file at file_path
Classified(fmap, file_path) ==
    LET f == Universe[fmap[file_path]]
        mime == get_mime_type(f.sniff)
        ext == Ext(Name(file_path))
    IN [file_size |-> f.size, mime |-> mime, ext |-> ext,
        category |-> Category(mime, ext),
        date |-> DateOf(f, mime, ext)]

\* rglob yields file_path: an entry that was under source when the walk began
\* and that it has not yielded yet, or an entry created during the walk, which
\* it may yield or miss. An iteration that ends at a continue of lines 98-105
\* changes nothing, so the steps of the loop are the iterations that get past
\* them (~Skipped): the entries passed over stay in todo until the walk ends.
Yield(file_path) ==
    /\ pc = "scan"
    /\ \/ file_path \in todo
       \/ /\ IsUnder(file_path, source)
          /\ file_path \notin DOMAIN fs0.files \cup fs0.dirs
    /\ todo' = todo \ {file_path}

\* the source paths added to the totals so far, each with how many times
Counted(c, file_path) ==
    [q \in DOMAIN c \cup {file_path} |->
        IF q = file_path THEN (IF q \in DOMAIN c THEN c[q] ELSE 0) + 1 ELSE c[q]]

\* line 128
StopsAfterStats(m) == m = "report"

\* Mutates for every mode that gets past line 129
MutatesUnlessReport(m) == m # "report"

\* line 149
Mutates(m) == m = "organize"

\* line 157
Plans(m) == m = "dry-run"

\* lines 107-129 in report mode
Report(file_path) ==
    /\ StopsAfterStats(mode)
    /\ Yield(file_path)
    /\ ~Skipped(files, target, file_path)
    /\ LET r == Classified(files, file_path)
       IN stats' = AddStats(stats, r.category, r.ext, r.file_size)
    /\ counted' = Counted(counted, file_path)
    /\ UNCHANGED <<files, dirs, today, mode, source, target, pc, phase, fs0, prev,
                   arg, counter, ret>>

\* line 158: the plan entry
PlanEntry(category, file_path, dest) ==
    [dry |-> TRUE, category |-> category, name |-> Name(file_path), dest |-> dest,
     src |-> file_path]

\* line 154: the move entry
MoveEntry(category, file_path, dest) ==
    [dry |-> FALSE, category |-> category, name |-> Name(file_path), dest |-> dest,
     src |-> file_path]

\* line 156: the error entry
ErrorEntry(file_path, e) == [src |-> file_path, e |-> e]

\* lines 107-147 and 157-158 in dry-run mode
DryRun(file_path) ==
    /\ ~StopsAfterStats(mode) /\ ~Mutates(mode) /\ Plans(mode)
    /\ Yield(file_path)
    /\ ~Skipped(files, target, file_path)
    /\ LET r == Classified(files, file_path)
           dest == Dest(target, source, file_path, r.category, r.date)
       IN stats' = [AddStats(stats, r.category, r.ext, r.file_size) EXCEPT
                       !.moved = Append(@, PlanEntry(r.category, file_path, dest))]
    /\ counted' = Counted(counted, file_path)
    /\ UNCHANGED <<files, dirs, today, mode, source, target, pc, phase, fs0, prev,
                   arg, counter, ret>>

\* shutil.move(src, dst) to a dst that does not exist: the rename succeeds
\* ("moved"); or the rename and the copy both fail ("failed"); or the rename
\* fails, the copy succeeds and unlinking src fails ("copied")
MoveOutcomes == {"moved", "failed", "copied"}

\* Move by a copy that leaves src in place
MoveByCopy(fmap, src, dst, outcome) ==
    LET paths == IF outcome = "failed" THEN DOMAIN fmap ELSE DOMAIN fmap \cup {dst}
    IN [q \in paths |-> IF q = dst THEN fmap[src] ELSE fmap[q]]

Move(fmap, src, dst, outcome) ==
    LET paths == CASE outcome = "moved" -> (DOMAIN fmap \ {src}) \cup {dst}
                   [] outcome = "copied" -> DOMAIN fmap \cup {dst}
                   [] OTHER -> DOMAIN fmap
    IN [q \in paths |-> IF q = dst THEN fmap[src] ELSE fmap[q]]

\* line 150 raises: mkdir meets a regular file; the exception leaves run_task
OrganizeRaises(file_path) ==
    /\ ~StopsAfterStats(mode) /\ Mutates(mode)
    /\ Yield(file_path)
    /\ ~Skipped(files, target, file_path)
    /\ LET r == Classified(files, file_path)
           dest == Dest(target, source, file_path, r.category, r.date)
       IN /\ MkdirRaises(DOMAIN files, Parent(dest))
          /\ stats' = AddStats(stats, r.category, r.ext, r.file_size)
    /\ counted' = Counted(counted, file_path)
    /\ pc' = "raised"
    /\ UNCHANGED <<files, dirs, today, mode, source, target, phase, fs0, prev,
                   arg, counter, ret>>

\* lines 107-156 in organize mode
Organize(file_path) ==
    /\ ~StopsAfterStats(mode) /\ Mutates(mode)
    /\ Yield(file_path)
    /\ ~Skipped(files, target, file_path)
    /\ LET r == Classified(files, file_path)
           cand == Dest(target, source, file_path, r.category, r.date)
           made == Mkdir(dirs, Parent(cand))
           dest == get_safe_path(DOMAIN files, made, cand, today)
           st == AddStats(stats, r.category, r.ext, r.file_size)
       IN /\ ~MkdirRaises(DOMAIN files, Parent(cand))
          /\ dirs' = made
          /\ \E outcome \in MoveOutcomes :
               /\ files' = Move(files, file_path, dest, outcome)
               /\ stats' =
                    IF outcome = "moved"
                    THEN [st EXCEPT
                            !.moved = Append(@, MoveEntry(r.category, file_path, dest))]
                    ELSE [st EXCEPT
                            !.errors = Append(@, ErrorEntry(file_path, outcome))]
    /\ counted' = Counted(counted, file_path)
    /\ UNCHANGED <<today, mode, source, target, pc, phase, fs0, prev, arg, counter, ret>>

\* line 160: rglob is exhausted once it has yielded every entry that was
\* under source when the walk began; what is left of them is passed over
Return ==
    /\ pc = "scan"
    /\ {file_path \in todo : ~Skipped(files, target, file_path)} = {}
    /\ pc' = "done"
    /\ UNCHANGED <<files, dirs, today, mode, source, target, phase, todo,
                   stats, counted, fs0, prev, arg, counter, ret>>

\* line 195, a second time: after a dry run, or after an organize run that
\* recorded no error, an organize run with the same source and target
Call ==
    /\ pc \in {"done", "raised"}
    /\ phase = "first"
    /\ mode = "dry-run" \/ (mode = "organize" /\ stats.errors = <<>>)
    /\ phase' = "second"
    /\ mode' = "organize"
    /\ prev' = [mode |-> mode, pc |-> pc, stats |-> stats, counted |-> counted,
                fs0 |-> fs0]
    /\ pc' = "scan"
    /\ todo' = Entries(DOMAIN files, dirs, source)
    /\ stats' = EmptyStats
    /\ counted' = <<>>
    /\ fs0' = [files |-> files, dirs |-> dirs]
    /\ UNCHANGED <<files, dirs, today, source, target, arg, counter, ret>>

Next ==
    \/ \E p \in DOMAIN files : Report(p)
    \/ \E p \in DOMAIN files : DryRun(p)
    \/ \E p \in DOMAIN files : OrganizeRaises(p)
    \/ \E p \in DOMAIN files : Organize(p)
    \/ Return
    \/ Call

Spec == Init /\ [][Next]_vars


-----------------------------------------------------------------------------
(* Lines 107-120 alone, on a file with any sniffed type and any name *)

Sniffs ==
    {"image/jpeg", "image/heic", "images/x", "x-image/png", "image", "video/mp4",
     "video/quicktime", "videos", "text/plain", "application/octet-stream",
     "unknown/unknown", SniffFailed}

FileNames ==
    {"a.jpg", "a.RAW", "a.arw", "b.Cr2", "c.nef", "d.DNG", "e.heic", "f.HEIC",
     "g.mkv", "h.MOV", "i.mp4", "j.avi", "k.3gp", "l.3GP", "noext", ".heic",
     "m.mov.", "n.tar.mp4", "o.txt", "p.heicx", "mp4"}

\* the variables of run_task, which the calls of a single function leave alone
Idle ==
    /\ mode = None
    /\ source = <<"s">>
    /\ target = NoTarget
    /\ phase = "first"
    /\ todo = {}
    /\ stats = EmptyStats
    /\ counted = <<>>
    /\ fs0 = [files |-> <<>>, dirs |-> {}]
    /\ prev = NoPrev

InitClassify ==
    /\ Idle
    /\ files = <<>>
    /\ dirs = {<<>>}
    /\ today \in Dates
    /\ pc = "call"
    /\ arg \in [sniff : Sniffs, name : FileNames]
    /\ counter = 0
    /\ ret = None

\* lines 108-120
Classify ==
    /\ pc = "call"
    /\ LET mime == get_mime_type(arg.sniff)
           ext == Ext(arg.name)
       IN ret' = [mime |-> mime, ext |-> ext, category |-> Category(mime, ext)]
    /\ pc' = "done"
    /\ UNCHANGED <<files, dirs, today, mode, source, target, phase, todo, stats,
                   counted, fs0, prev, arg, counter>>

NextClassify == Classify

SpecClassify == InitClassify /\ [][NextClassify]_vars

-----------------------------------------------------------------------------
(* get_safe_path alone, statement by statement, on any directory *)

\* how many numbered names the directory may already hold
MaxTaken == 3

Candidates == {"photo.jpg", "a.tar.gz", ".hidden"}

Days == {[year |-> 2024, month |-> 1, day |-> 1],
         [year |-> 2024, month |-> 12, day |-> 31]}

Album == <<"t", "Photos">>

\* the n-th numbered name of a candidate for the date written d
Numbered(name, d, n) ==
    CASE name = "photo.jpg" -> "photo_" \o d \o "_" \o IntStr(n) \o ".jpg"
      [] name = "a.tar.gz" -> "a.tar_" \o d \o "_" \o IntStr(n) \o ".gz"
      [] name = ".hidden" -> ".hidden_" \o d \o "_" \o IntStr(n)

\* the days written as YYYYMMDD
Written(day) == IF day.month = 1 THEN "20240101" ELSE "20241231"

InitSafePath ==
    /\ Idle
    /\ today \in Days
    /\ \E name \in Candidates, kind \in {"absent", "file", "dir"},
          N \in SUBSET (1..MaxTaken) :
        LET cand == Album \o <<name>>
            taken == {Album \o <<Numbered(name, "20240101", n)>> : n \in N}
            fpaths == taken \cup (IF kind = "file" THEN {cand} ELSE {})
        IN /\ arg = cand
           /\ files = [q \in fpaths |-> 1]
           /\ dirs = Parents(cand) \cup (IF kind = "dir" THEN {cand} ELSE {})
    /\ pc = "call"
    /\ counter = 0
    /\ ret = None

\* lines 31-32
ReturnUnchanged ==
    /\ pc = "call"
    /\ ~Exists(DOMAIN files, dirs, arg)
    /\ ret' = arg
    /\ pc' = "done"
    /\ UNCHANGED <<files, dirs, today, mode, source, target, phase, todo, stats,
                   counted, fs0, prev, arg, counter>>

\* lines 31-39
EnterLoop ==
    /\ pc = "call"
    /\ Exists(DOMAIN files, dirs, arg)
    /\ counter' = 1
    /\ pc' = "loop"
    /\ UNCHANGED <<files, dirs, today, mode, source, target, phase, todo, stats,
                   counted, fs0, prev, arg, ret>>

\* lines 41-44
ReturnNew ==
    /\ pc = "loop"
    /\ ~Exists(DOMAIN files, dirs, NewPath(arg, DateStr(today), counter))
    /\ ret' = NewPath(arg, DateStr(today), counter)
    /\ pc' = "done"
    /\ UNCHANGED <<files, dirs, today, mode, source, target, phase, todo, stats,
                   counted, fs0, prev, arg, counter>>

\* lines 41-45
TryNext ==
    /\ pc = "loop"
    /\ Exists(DOMAIN files, dirs, NewPath(arg, DateStr(today), counter))
    /\ counter' = NextCounter(counter)
    /\ UNCHANGED <<files, dirs, today, mode, source, target, pc, phase, todo, stats,
                   counted, fs0, prev, arg, ret>>

NextSafePath == ReturnUnchanged \/ EnterLoop \/ ReturnNew \/ TryNext

\* the interpreter runs the call's next statement
SpecSafePath == InitSafePath /\ [][NextSafePath]_vars /\ WF_vars(NextSafePath)

-----------------------------------------------------------------------------
(* What the claims are stated with *)

InTargetTree(p) == target # NoTarget /\ (IsUnder(p, target) \/ p = target)

\* the regular files under source when the call began that the skip rules
\* (target subtree, log file name) do not exclude
Eligible ==
    {p \in DOMAIN fs0.files :
        IsUnder(p, source) /\ ~InTargetTree(p) /\ Name(p) # "organization_log.txt"}

RECURSIVE SumOf(_, _)
SumOf(f, S) ==
    IF S = {} THEN 0
    ELSE LET x == CHOOSE y \in S : TRUE IN f[x] + SumOf(f, S \ {x})

TotalCount == SumOf([c \in Categories |-> stats.totals[c].count], Categories)
TotalSize == SumOf([c \in Categories |-> stats.totals[c].size], Categories)

SizeAtStart == [p \in DOMAIN fs0.files |-> Universe[fs0.files[p]].size]

Srcs(entries) == {entries[i].src : i \in 1..Len(entries)}

\* C1: in organize mode a failure of the mkdir, of get_safe_path or of the
\* move never leaves run_task by an exception: the loop goes on to the next file
C1_FailureNeverAborts == mode = "organize" => pc # "raised"

\* C2: when run_task returns, every regular file that was under source at the
\* start and is not excluded by the skip rules has been added to the totals
\* exactly once: the category counts sum to the number of these files, the
\* category sizes to the sum of their sizes
C2_CountedExactlyOnce ==
    pc = "done" =>
        /\ DOMAIN counted = Eligible
        /\ \A p \in Eligible : counted[p] = 1
        /\ TotalCount = Cardinality(Eligible)
        /\ TotalSize = SumOf(SizeAtStart, Eligible)

C2_Witness ==
    /\ pc = "done"
    /\ mode = "organize"
    /\ Len(stats.errors) = 1
    /\ Len(stats.moved) = 1
    /\ Cardinality(Eligible) = 2
    /\ Eligible # {p \in DOMAIN fs0.files : IsUnder(p, source)}

\* C3: in report mode and in dry-run mode the files and the directories are
\* those of the start of the call, and no error is recorded
C3_NoMutation ==
    mode \in {"report", "dry-run"} =>
        /\ files = fs0.files
        /\ dirs = fs0.dirs
        /\ stats.errors = <<>>

C3_Witness ==
    /\ mode = "dry-run"
    /\ pc = "done"
    /\ Len(stats.moved) = 2
    /\ target \notin dirs

\* C4: after a dry run, an organize run from the same filesystem records a
\* move entry or an error entry for exactly the files the dry run recorded a
\* plan entry for, one plan entry each, with the same category and file name
C4_SameFilesActedOn ==
    (phase = "second" /\ prev.mode = "dry-run" /\ pc \in {"done", "raised"}) =>
        LET plan == prev.stats.moved
        IN /\ Srcs(plan) = Srcs(stats.moved) \cup Srcs(stats.errors)
           /\ \A i, j \in 1..Len(plan) : plan[i].src = plan[j].src => i = j
           /\ \A i \in 1..Len(plan) : plan[i].dry
           /\ \A i \in 1..Len(plan), j \in 1..Len(stats.moved) :
                plan[i].src = stats.moved[j].src =>
                    /\ plan[i].category = stats.moved[j].category
                    /\ plan[i].name = stats.moved[j].name

\* C5: with the target inside the source, an organize run counts and moves no
\* file of the target subtree, whether it was there at the start or was moved
\* there by the run; it moves every file of the start at most once, attempts at
\* most as many moves as there were files to act on, and every iteration that
\* acts on a file leaves fewer entries for rglob to yield, so the loop ends
C5_TargetSubtreeLeftAlone ==
    /\ [](mode = "organize" /\ IsUnder(target, source) =>
            /\ \A p \in DOMAIN counted : ~InTargetTree(p) /\ counted[p] = 1
            /\ \A i \in 1..Len(stats.moved) :
                 /\ ~InTargetTree(stats.moved[i].src)
                 /\ stats.moved[i].src \in Eligible
                 /\ InTargetTree(stats.moved[i].dest)
            /\ \A i, j \in 1..Len(stats.moved) :
                 stats.moved[i].src = stats.moved[j].src => i = j
            /\ Len(stats.moved) + Len(stats.errors) <= Cardinality(Eligible))
    /\ [][(mode = "organize" /\ IsUnder(target, source) /\ pc = "scan"
            /\ phase' = phase)
           => Cardinality(todo') < Cardinality(todo) \/ pc' # "scan"]_vars

C5_Witness ==
    /\ mode = "organize"
    /\ IsUnder(target, source)
    /\ pc = "done"
    /\ Len(stats.moved) = 2
    /\ \E p \in DOMAIN fs0.files : IsUnder(p, target)

HasPrefix(s, prefix) == Len(s) >= Len(prefix) /\ SubSeq(s, 1, Len(prefix)) = prefix

\* C6: the category is Photos iff the MIME type starts with image/ or the
\* extension is one of .raw .arw .cr2 .nef .dng .heic; otherwise Videos iff the
\* MIME type starts with video/ or the extension is one of .mkv .mov .mp4 .avi
\* .3gp; otherwise Non-Media. A failed sniff gives the sentinel, under which the
\* extension alone decides; the extension is compared lower-cased
C6_Classification ==
    (pc = "done" /\ arg \in [sniff : Sniffs, name : FileNames]) =>
        LET photo == \/ HasPrefix(ret.mime, "image/")
                     \/ ret.ext \in {".raw", ".arw", ".cr2", ".nef", ".dng", ".heic"}
            video == \/ HasPrefix(ret.mime, "video/")
                     \/ ret.ext \in {".mkv", ".mov", ".mp4", ".avi", ".3gp"}
        IN /\ ret.category \in {"Photos", "Videos", "Non-Media"}
           /\ ret.category = "Photos" <=> photo
           /\ ret.category = "Videos" <=> (~photo /\ video)
           /\ ret.category = "Non-Media" <=> (~photo /\ ~video)
           /\ arg.sniff = SniffFailed => ret.mime = "unknown/unknown"
           /\ arg.sniff # SniffFailed => ret.mime = arg.sniff
           /\ arg.name \in {"a.RAW", "d.DNG", "f.HEIC"} => ret.category = "Photos"
           /\ arg.name \in {"h.MOV", "l.3GP"} /\ ~photo => ret.category = "Videos"
           /\ arg.name \in {"noext", ".heic", "m.mov.", "mp4"} => ret.ext = ".no_ext"

C6_Witness ==
    /\ pc = "done"
    /\ arg = [sniff |-> "video/mp4", name |-> "f.HEIC"]
    /\ ret = [mime |-> "video/mp4", ext |-> ".heic", category |-> "Photos"]

\* what the destination of each file of the universe is, relative to the target
ExpectedRel(id) ==
    CASE Universe[id].rel = <<"a.jpg">> -> <<"Photos", "2023", "06", "a.jpg">>
      [] Universe[id].rel = <<"sub", "a.jpg">> -> <<"Photos", "2023", "06", "a.jpg">>
      [] Universe[id].rel = <<"b.HEIC">> -> <<"UnknownDate", "Photos", "b.HEIC">>
      [] Universe[id].rel = <<"c.mov">> -> <<"Videos", "2024", "11", "c.mov">>
      [] Universe[id].rel = <<"sub", "n.txt">> -> <<"NonMedia", "sub", "n.txt">>
      [] OTHER -> <<>>

\* C7: the candidate destination of a file follows from its category, its
\* capture date and its path: a Non-Media file goes to
\* target/NonMedia/<path relative to source>, a photo or video with a date to
\* target/<category>/<year>/<two-digit month>/<name>, a photo or video without
\* one to target/UnknownDate/<category>/<name>. A plan entry names the
\* candidate; a move entry names a path in the candidate's directory
C7_Destination ==
    mode \in {"dry-run", "organize"} =>
        \A i \in 1..Len(stats.moved) :
            LET e == stats.moved[i]
                cand == target \o ExpectedRel(fs0.files[e.src])
                date == DateOf(Universe[fs0.files[e.src]],
                               get_mime_type(Universe[fs0.files[e.src]].sniff),
                               Ext(e.name))
                rel == SubSeq(e.dest, Len(target) + 1, Len(e.dest))
            IN /\ e.name = Name(e.src)
               /\ IF e.dry THEN e.dest = cand ELSE Parent(e.dest) = Parent(cand)
               /\ SubSeq(e.dest, 1, Len(target)) = target
               /\ e.category = "Non-Media" =>
                    Parent(rel) = <<"NonMedia">> \o Parent(relative_to(e.src, source))
               /\ (e.category # "Non-Media" /\ date = NoDate) =>
                    Parent(rel) = <<"UnknownDate", e.category>>
               /\ (e.category # "Non-Media" /\ date # NoDate) =>
                    /\ Len(rel) = 4
                    /\ rel[1] = e.category
                    /\ Len(rel[3]) = 2
                    /\ ParseNat(rel[2]) = date.year /\ ParseNat(rel[3]) = date.month

C7_Witness ==
    /\ mode = "dry-run"
    /\ pc = "done"
    /\ \E i, j \in 1..Len(stats.moved) :
         /\ stats.moved[i].dest = target \o <<"UnknownDate", "Photos", "b.HEIC">>
         /\ stats.moved[j].dest = target \o <<"Photos", "2023", "06", "a.jpg">>

\* C8: after an organize run that returned with every move done, a second
\* organize run with the same source and target records no move and no error,
\* returns, and leaves the files and directories as they were
C8_SecondRunFixedPoint ==
    (/\ phase = "second"
     /\ prev.mode = "organize" /\ prev.pc = "done" /\ prev.stats.errors = <<>>) =>
        /\ stats.moved = <<>>
        /\ stats.errors = <<>>
        /\ pc # "raised"
        /\ files = fs0.files
        /\ dirs = fs0.dirs

C8_Witness ==
    /\ phase = "second"
    /\ prev.mode = "organize" /\ prev.pc = "done" /\ prev.stats.errors = <<>>
    /\ Len(prev.stats.moved) = 2
    /\ IsUnder(target, source)
    /\ pc = "done"

\* the paths that exist
Present == DOMAIN files \cup dirs

\* C9: get_safe_path returns a path that does not exist: the candidate itself
\* when it does not exist, otherwise <stem>_<YYYYMMDD>_<n><suffix> in the
\* candidate's directory, with today's date and the least n >= 1 whose path
\* does not exist (photo_20240101_2.jpg next to photo.jpg and
\* photo_20240101_1.jpg on 2024-01-01); the counter never passes the number of
\* existing paths by more than one, and the call returns
C9_SafePath ==
    /\ [](pc = "done" =>
            /\ ret \notin Present
            /\ arg \notin Present => ret = arg
            /\ arg \in Present =>
                 \E n \in 1..(Cardinality(Present) + 1) :
                    /\ ret = Album \o <<Numbered(Name(arg), Written(today), n)>>
                    /\ \A k \in 1..(n - 1) :
                         Album \o <<Numbered(Name(arg), Written(today), k)>> \in Present
            /\ Parent(ret) = Parent(arg)
            /\ ret = get_safe_path(DOMAIN files, dirs, arg, today)
            /\ (/\ Name(arg) = "photo.jpg"
                /\ today = [year |-> 2024, month |-> 1, day |-> 1]
                /\ Album \o <<"photo.jpg">> \in Present
                /\ Album \o <<"photo_20240101_1.jpg">> \in Present
                /\ Album \o <<"photo_20240101_2.jpg">> \notin Present)
               => ret = Album \o <<"photo_20240101_2.jpg">>
            /\ (Name(arg) = "a.tar.gz" /\ arg \in Present /\ today.month = 12
                /\ files = [q \in {arg} |-> 1])
               => ret = Album \o <<"a.tar_20241231_1.gz">>)
    /\ [](counter <= Cardinality(Present) + 1)
    /\ <>(pc = "done")

C9_Witness ==
    /\ pc = "done"
    /\ arg = Album \o <<"photo.jpg">>
    /\ DOMAIN files = {Album \o <<"photo.jpg">>, Album \o <<"photo_20240101_1.jpg">>}
    /\ ret = Album \o <<"photo_20240101_2.jpg">>
    /\ counter = 2

\* the move entries and the error entries of this call that left a copy
Copied == {i \in 1..Len(stats.errors) : stats.errors[i].e = "copied"}

\* C10 as stated: after an organize run there are as many regular files as
\* before it
C10_SameNumberOfFiles ==
    (mode = "organize" /\ pc = "done") =>
        Cardinality(DOMAIN files) = Cardinality(DOMAIN fs0.files)

\* C10, amended: an organize run never overwrites or loses a file. Every step
\* leaves each regular file where it is with its content, or moves it to a path
\* that did not exist; whatever a step adds lies at a path that did not exist;
\* the move entries name distinct destinations, each holding the file moved
\* there; and the number of regular files is the number at the start plus one
\* for every move that failed after the file had been copied to its destination
C10_NothingOverwrittenOrLost ==
    /\ [][\A p \in DOMAIN files :
            \/ p \in DOMAIN files' /\ files'[p] = files[p]
            \/ /\ p \notin DOMAIN files'
               /\ \E q \in DOMAIN files' \ (DOMAIN files \cup dirs) :
                     files'[q] = files[p]]_vars
    /\ [][\A q \in DOMAIN files' \ DOMAIN files : q \notin dirs /\ q \notin dirs']_vars
    /\ [](mode = "organize" =>
            /\ \A i, j \in 1..Len(stats.moved) :
                 stats.moved[i].dest = stats.moved[j].dest => i = j
            /\ \A i \in 1..Len(stats.moved) :
                 /\ stats.moved[i].dest \in DOMAIN files
                 /\ files[stats.moved[i].dest] = fs0.files[stats.moved[i].src]
                 /\ stats.moved[i].dest \notin DOMAIN fs0.files \cup fs0.dirs
            /\ \A p \in DOMAIN fs0.files : \E q \in DOMAIN files : files[q] = fs0.files[p]
            /\ Cardinality(DOMAIN files)
                 = Cardinality(DOMAIN fs0.files) + Cardinality(Copied))

C10_Witness ==
    /\ mode = "organize"
    /\ pc = "done"
    /\ target \o <<"Photos", "2023", "06", "a.jpg">> \in DOMAIN fs0.files
    /\ Len(stats.moved) = 2
    /\ Name(stats.moved[1].dest) = "a_20240101_1.jpg"
    /\ Name(stats.moved[2].dest) = "a_20240101_2.jpg"

=============================================================================
